---- MODULE Spec2Model ----
(***************************************************************************)
(* Model of the two-stage weather pipeline:                                *)
(*   src/src/extract.py    fetch the forecast and persist the raw JSON     *)
(*   src/src/transform.py  load the raw JSON, build the table, write CSV   *)
(* Files hold text (token sequences); json.dump / json.load / to_csv are   *)
(* modelled as the conversions they are.                                   *)
(***************************************************************************)
EXTENDS Integers, Sequences, FiniteSets, TLC

(***************************************************************************)
(* Bounds of the model.                                                    *)
(***************************************************************************)
\* longest array under "hourly"
MaxLen == 2
\* number of service calls in one behaviour
MaxCalls == 2

(***************************************************************************)
(* JSON documents as Python holds them after json.load / response.json(). *)
(* An object is the insertion-ordered sequence of its (key, value) pairs.  *)
(***************************************************************************)
JNull == [t |-> "null"]
JNum(n) == [t |-> "num", v |-> n]
JStr(s) == [t |-> "str", v |-> s]
JArr(items) == [t |-> "arr", v |-> items]
JObj(pairs) == [t |-> "obj", v |-> pairs]

Pair(key, val) == [k |-> key, v |-> val]

\* dict.__contains__
HasKey(obj, key) == \E i \in 1..Len(obj.v) : obj.v[i].k = key

\* dict.__getitem__ on a present key
GetKey(obj, key) == obj.v[CHOOSE i \in 1..Len(obj.v) : obj.v[i].k = key].v

\* dict.__setitem__: a present key keeps its position and takes the new value
DictSet(pairs, key, val) ==
    IF \E i \in 1..Len(pairs) : pairs[i].k = key
    THEN [i \in 1..Len(pairs) |-> IF pairs[i].k = key THEN Pair(key, val) ELSE pairs[i]]
    ELSE Append(pairs, Pair(key, val))

(***************************************************************************)
(* json.dump(data, f, indent=4): the text written, as tokens.  A newline   *)
(* token carries the number of spaces that follow it.                      *)
(***************************************************************************)
IndentWidth == 4

Punct(c) == [t |-> c]
Newline(level) == [t |-> "nl", v |-> IndentWidth * level]

RECURSIVE Encode(_, _)
RECURSIVE EncodeItems(_, _, _)
RECURSIVE EncodePairs(_, _, _)

EncodeItems(items, i, level) ==
    IF i > Len(items) THEN <<>>
    ELSE (IF i > 1 THEN <<Punct(",")>> ELSE <<>>)
         \o <<Newline(level)>> \o Encode(items[i], level)
         \o EncodeItems(items, i + 1, level)

EncodePairs(pairs, i, level) ==
    IF i > Len(pairs) THEN <<>>
    ELSE (IF i > 1 THEN <<Punct(",")>> ELSE <<>>)
         \o <<Newline(level), [t |-> "str", v |-> pairs[i].k], Punct(":")>>
         \o Encode(pairs[i].v, level)
         \o EncodePairs(pairs, i + 1, level)

Encode(d, level) ==
    CASE d.t = "null" -> <<Punct("null")>>
      [] d.t = "num"  -> <<[t |-> "num", v |-> d.v]>>
      [] d.t = "str"  -> <<[t |-> "str", v |-> d.v]>>
      [] d.t = "arr"  ->
            IF Len(d.v) = 0 THEN <<Punct("["), Punct("]")>>
            ELSE <<Punct("[")>> \o EncodeItems(d.v, 1, level + 1)
                 \o <<Newline(level), Punct("]")>>
      [] d.t = "obj"  ->
            IF Len(d.v) = 0 THEN <<Punct("{"), Punct("}")>>
            ELSE <<Punct("{")>> \o EncodePairs(d.v, 1, level + 1)
                 \o <<Newline(level), Punct("}")>>

JsonDump(d) == Encode(d, 0)

(***************************************************************************)
(* json.load(f) / response.json(): parse text to a document, or fail with  *)
(* a JSONDecodeError.                                                      *)
(***************************************************************************)
ParseFail == [ok |-> FALSE]
Parsed(val, rest) == [ok |-> TRUE, val |-> val, rest |-> rest]

\* whitespace between tokens is insignificant
IsSpace(tok) == tok.t = "nl"
Lex(text) == SelectSeq(text, LAMBDA tok : ~IsSpace(tok))

RECURSIVE ParseValue(_)
RECURSIVE ParseItems(_, _)
RECURSIVE ParsePairs(_, _)

ParseItems(ts, acc) ==
    LET r == ParseValue(ts) IN
    IF ~r.ok \/ r.rest = <<>> THEN ParseFail
    ELSE IF Head(r.rest).t = "," THEN ParseItems(Tail(r.rest), Append(acc, r.val))
    ELSE IF Head(r.rest).t = "]" THEN Parsed(JArr(Append(acc, r.val)), Tail(r.rest))
    ELSE ParseFail

ParsePairs(ts, acc) ==
    IF Len(ts) < 2 \/ ts[1].t # "str" \/ ts[2].t # ":" THEN ParseFail
    ELSE LET r == ParseValue(SubSeq(ts, 3, Len(ts))) IN
         IF ~r.ok \/ r.rest = <<>> THEN ParseFail
         ELSE IF Head(r.rest).t = ","
              THEN ParsePairs(Tail(r.rest), DictSet(acc, ts[1].v, r.val))
         ELSE IF Head(r.rest).t = "}"
              THEN Parsed(JObj(DictSet(acc, ts[1].v, r.val)), Tail(r.rest))
         ELSE ParseFail

ParseValue(ts) ==
    IF ts = <<>> THEN ParseFail
    ELSE CASE ts[1].t = "null" -> Parsed(JNull, Tail(ts))
           [] ts[1].t = "num"  -> Parsed(JNum(ts[1].v), Tail(ts))
           [] ts[1].t = "str"  -> Parsed(JStr(ts[1].v), Tail(ts))
           [] ts[1].t = "["    ->
                 IF Len(ts) >= 2 /\ ts[2].t = "]"
                 THEN Parsed(JArr(<<>>), SubSeq(ts, 3, Len(ts)))
                 ELSE ParseItems(Tail(ts), <<>>)
           [] ts[1].t = "{"    ->
                 IF Len(ts) >= 2 /\ ts[2].t = "}"
                 THEN Parsed(JObj(<<>>), SubSeq(ts, 3, Len(ts)))
                 ELSE ParsePairs(Tail(ts), <<>>)
           [] OTHER -> ParseFail

\* the whole text must be one value: trailing tokens are "Extra data"
JsonLoads(text) ==
    LET r == ParseValue(Lex(text)) IN
    IF r.ok /\ r.rest = <<>> THEN [ok |-> TRUE, val |-> r.val] ELSE ParseFail

(***************************************************************************)
(* OpenMeteoTransformer.transform (transform.py 33-51).                    *)
(***************************************************************************)
\* value[key] with a string key: a dict gives the value or KeyError(key);
\* a list, a string, a number or None gives TypeError
Subscript(value, key) ==
    IF value.t = "obj"
    THEN IF HasKey(value, key)
         THEN [ok |-> TRUE, val |-> GetKey(value, key)]
         ELSE [ok |-> FALSE, exc |-> "KeyError", key |-> key]
    ELSE [ok |-> FALSE, exc |-> "TypeError", key |-> key]

\* raw_data["hourly"][key]
HourlyItem(raw_data, key) ==
    LET h == Subscript(raw_data, "hourly") IN
    IF h.ok THEN Subscript(h.val, key) ELSE h

ColumnNames == <<"Timestamp", "Temperature (°C)", "Precipitation (mm)">>

IsList(value) == value.t = "arr"

\* mutant: the columns are cut to the shortest list instead of being rejected
DataFrameTruncating(values) ==
    LET lists == {i \in 1..Len(values) : IsList(values[i])}
        lens  == {Len(values[i].v) : i \in lists}
    IN  IF lists = {}
        THEN [ok |-> FALSE, exc |-> "ValueError"]
        ELSE LET n == CHOOSE m \in lens : \A l \in lens : m <= l IN
             [ok |-> TRUE,
              df |-> [columns |-> ColumnNames,
                      data |-> [i \in 1..Len(values) |->
                                  IF IsList(values[i]) THEN SubSeq(values[i].v, 1, n)
                                  ELSE [j \in 1..n |-> values[i]]]]]

\* pd.DataFrame({name: value, ...}) for values that are lists or scalars:
\* a scalar is broadcast to the length of the lists; lists of different
\* lengths, or no list at all, raise ValueError.  Column order is dict order.
DataFrame(values) ==
    LET lists == {i \in 1..Len(values) : IsList(values[i])}
        lens  == {Len(values[i].v) : i \in lists}
    IN  IF lists = {} \/ Cardinality(lens) > 1
        THEN [ok |-> FALSE, exc |-> "ValueError"]
        ELSE LET n == CHOOSE m \in lens : TRUE IN
             [ok |-> TRUE,
              df |-> [columns |-> ColumnNames,
                      data |-> [i \in 1..Len(values) |->
                                  IF IsList(values[i]) THEN values[i].v
                                  ELSE [j \in 1..n |-> values[i]]]]]

NRows(df) == Len(df.data[1])
Row(df, i) == [c \in 1..Len(df.columns) |-> df.data[c][i]]

\* mutant: precipitation is read from the temperature key
TransformCopyPaste(raw_data) ==
    LET timestamps    == HourlyItem(raw_data, "time")
        temperatures  == HourlyItem(raw_data, "temperature_2m")
        precipitation == HourlyItem(raw_data, "temperature_2m")
        failed == IF ~timestamps.ok THEN timestamps
                  ELSE IF ~temperatures.ok THEN temperatures
                  ELSE precipitation
    IN  IF ~failed.ok
        THEN IF failed.exc = "KeyError"
             THEN [kind |-> "none", key |-> failed.key]
             ELSE [kind |-> "raise", exc |-> failed.exc]
        ELSE LET r == DataFrame(<<timestamps.val, temperatures.val, precipitation.val>>)
             IN  IF r.ok THEN [kind |-> "table", df |-> r.df]
                 ELSE [kind |-> "raise", exc |-> r.exc]

\* the outcome of transform: a table, None (after the missing-key print),
\* or an exception that leaves transform
Transform(raw_data) ==
    LET timestamps    == HourlyItem(raw_data, "time")
        temperatures  == HourlyItem(raw_data, "temperature_2m")
        precipitation == HourlyItem(raw_data, "precipitation")
        failed == IF ~timestamps.ok THEN timestamps
                  ELSE IF ~temperatures.ok THEN temperatures
                  ELSE precipitation
    IN  IF ~failed.ok
        THEN IF failed.exc = "KeyError"
             THEN [kind |-> "none", key |-> failed.key]
             ELSE [kind |-> "raise", exc |-> failed.exc]
        ELSE LET r == DataFrame(<<timestamps.val, temperatures.val, precipitation.val>>)
             IN  IF r.ok THEN [kind |-> "table", df |-> r.df]
                 ELSE [kind |-> "raise", exc |-> r.exc]

(***************************************************************************)
(* df.to_csv(output_path, index=False): a header line and one line per     *)
(* row; a line is the sequence of its fields as text.                      *)
(***************************************************************************)
CellText(cell) ==
    CASE cell.t = "num"  -> ToString(cell.v)
      [] cell.t = "str"  -> cell.v
      [] cell.t = "null" -> ""

ToCsv(df) ==
    <<df.columns>> \o
    [i \in 1..NRows(df) |-> [c \in 1..Len(df.columns) |-> CellText(Row(df, i)[c])]]

(***************************************************************************)
(* The inputs: documents the upstream API may answer with, and the         *)
(* responses of the transport.                                             *)
(***************************************************************************)
TimeStamps == <<"2024-01-01T02:00", "2024-01-01T00:00", "2024-01-01T03:00", "2024-01-01T01:00">>

\* element i of the array under the c-th key (source order is not sorted)
Elem(c, i) ==
    CASE c = 1 -> JStr(TimeStamps[((i - 1) % Len(TimeStamps)) + 1])
      [] c = 2 -> JNum(10 - 2 * i)
      [] c = 3 -> JNum(i - 1)

Arr(c, n) == JArr([i \in 1..n |-> Elem(c, i)])

Scalar(c) ==
    CASE c = 1 -> JStr("now")
      [] c = 2 -> JNum(5)
      [] c = 3 -> JNull

HourlyKeys == <<"time", "temperature_2m", "precipitation">>

\* {"latitude": 40, "hourly": {<the keys of present, in order>}}
HourlyDoc(values, present) ==
    JObj(<<Pair("latitude", JNum(40)),
           Pair("hourly",
                JObj([j \in 1..Len(present) |->
                        Pair(HourlyKeys[present[j]], values[present[j]])]))>>)

Lengths == 0..MaxLen

ArrayDocs ==
    {HourlyDoc(<<Arr(1, a), Arr(2, b), Arr(3, c)>>, <<1, 2, 3>>) :
        a \in Lengths, b \in Lengths, c \in Lengths}

ScalarDocs ==
    {HourlyDoc([c \in 1..3 |-> IF c = k THEN Scalar(c) ELSE Arr(c, n)], <<1, 2, 3>>) :
        k \in 1..3, n \in Lengths}
    \cup {HourlyDoc([c \in 1..3 |-> Scalar(c)], <<1, 2, 3>>)}

PartialDocs ==
    {HourlyDoc([c \in 1..3 |-> Arr(c, 0)], present) :
        present \in {<<>>, <<1>>, <<2>>, <<3>>, <<1, 2>>, <<1, 3>>, <<2, 3>>}}

OddDocs ==
    {JNull, JObj(<<>>), JObj(<<Pair("hourly", JNull)>>), JObj(<<Pair("hourly", JArr(<<>>))>>)}

Docs == ArrayDocs \cup ScalarDocs \cup PartialDocs \cup OddDocs

\* a body as the API sends it: no whitespace between the tokens
Body(d) == Lex(JsonDump(d))

\* bodies json cannot parse: empty, truncated
BadBodies == {<<>>, <<Punct("{"), [t |-> "str", v |-> "hourly"], Punct(":")>>}

\* a well-formed body that repeats a key (the last value wins)
DupBody ==
    <<Punct("{"), [t |-> "str", v |-> "hourly"], Punct(":"), Punct("null"), Punct(","),
      [t |-> "str", v |-> "hourly"], Punct(":"), Punct("{"), Punct("}"), Punct("}")>>

ErrorBody == Body(JObj(<<Pair("error", JStr("bad request"))>>))

Responses ==
    {[status |-> 200, body |-> b] : b \in {Body(d) : d \in Docs} \cup BadBodies \cup {DupBody}}
    \cup {[status |-> st, body |-> b] :
            st \in {404, 500}, b \in {ErrorBody, Body(JObj(<<>>)), <<>>}}

(***************************************************************************)
(* State.                                                                  *)
(***************************************************************************)
VARIABLES
    rawFile,      \* data/weather_data.json: [exists, text]
    procFile,     \* data/processed_weather.csv: [exists, lines]
    printed,      \* what the current (or latest) call printed, in order
    mainPc,       \* the caller: "idle" or its place inside a service call
    workerPc,     \* the worker thread / pool task of the current call
    lastCall,     \* "none", "fetch" or "transform": the current (or latest) call
    calls,        \* service calls made so far
    started,      \* workers started by the current call
    saveCalls,    \* repository.save invocations of the current call
    response,     \* task(): response
    data,         \* task(): data
    raw_data,     \* execute(): raw_data
    df,           \* execute(): df
    exc,          \* the exception raised inside the worker, "" if none
    raised,       \* the exception that left the service call, "" if none
    rawAtCall,    \* rawFile when the current call began
    procAtCall,   \* procFile when the current call began
    lastSaved     \* the document of the latest completed raw save

vars == <<rawFile, procFile, printed, mainPc, workerPc, lastCall, calls, started,
          saveCalls, response, data, raw_data, df, exc, raised, rawAtCall,
          procAtCall, lastSaved>>

files  == <<rawFile, procFile>>
locals == <<response, data, raw_data, df>>
caller == <<mainPc, lastCall, calls, started, raised, rawAtCall, procAtCall>>

Absent == [exists |-> FALSE, text |-> <<>>]
AbsentCsv == [exists |-> FALSE, lines |-> <<>>]
NoResponse == [status |-> 0, body |-> <<>>]
Unset == [t |-> "unset"]
NoDf == [kind |-> "unset"]
None == [kind |-> "none"]

Signal(kind) == [kind |-> kind]
SignalOf(kind, value) == [kind |-> kind, value |-> value]

\* text on disk that is not JSON
Garbage == <<[t |-> "str", v |-> "not json"], Punct("}")>>

\* a document left by an earlier fetch
EarlierDoc == HourlyDoc(<<Arr(1, 1), Arr(2, 1), Arr(3, 1)>>, <<1, 2, 3>>)

\* the table left by an earlier transform
StaleCsv == <<ColumnNames, <<"1999-12-31T23:00", "1", "0">>>>

Init ==
    /\ rawFile \in {Absent, [exists |-> TRUE, text |-> Garbage],
                    [exists |-> TRUE, text |-> JsonDump(EarlierDoc)]}
    /\ procFile \in {AbsentCsv, [exists |-> TRUE, lines |-> StaleCsv]}
    /\ printed = <<>>
    /\ mainPc = "idle"
    /\ workerPc = "none"
    /\ lastCall = "none"
    /\ calls = 0
    /\ started = 0
    /\ saveCalls = 0
    /\ response = NoResponse
    /\ data = Unset
    /\ raw_data = Unset
    /\ df = NoDf
    /\ exc = ""
    /\ raised = ""
    /\ rawAtCall = rawFile
    /\ procAtCall = procFile
    /\ lastSaved = Unset

\* entering a service call: fresh locals, nothing printed yet
Enter(stage, pc) ==
    /\ mainPc = "idle"
    /\ calls < MaxCalls
    /\ mainPc' = pc
    /\ lastCall' = stage
    /\ calls' = calls + 1
    /\ workerPc' = "created"
    /\ started' = 0
    /\ saveCalls' = 0
    /\ printed' = <<>>
    /\ response' = NoResponse
    /\ data' = Unset
    /\ raw_data' = Unset
    /\ df' = NoDf
    /\ exc' = ""
    /\ raised' = ""
    /\ rawAtCall' = rawFile
    /\ procAtCall' = procFile
    /\ UNCHANGED <<files, lastSaved>>

Terminated == workerPc \in {"finished", "crashed"}

(***************************************************************************)
(* extract.py: WeatherService.fetch_and_save_weather_data                  *)
(***************************************************************************)
\* lines 46-56: the call defines task and creates the thread
CallFetch == Enter("fetch", "f_start")

\* line 57: thread.start()
ThreadStart ==
    /\ mainPc = "f_start"
    /\ mainPc' = "f_join"
    /\ workerPc' = "f_fetch"
    /\ started' = started + 1
    /\ UNCHANGED <<files, printed, lastCall, calls, saveCalls, locals, exc, raised,
                   rawAtCall, procAtCall, lastSaved>>

\* mutant: the caller does not wait for the thread
JoinNoWait == TRUE

\* thread.join() returns once the thread has terminated, however it ended
JoinReady == Terminated

\* line 58: thread.join(); an exception that ended the thread is not re-raised
ThreadJoin ==
    /\ mainPc = "f_join"
    /\ JoinReady
    /\ mainPc' = "idle"
    /\ raised' = ""
    /\ UNCHANGED <<files, printed, workerPc, lastCall, calls, started, saveCalls,
                   locals, exc, rawAtCall, procAtCall, lastSaved>>

\* mutant: an exception in task() is reported like a bad status
TaskOnErrorReported(e) == "f_print_failed"

\* task() has no try: an exception raised in it ends the thread
TaskOnError(e) == "crashed"

\* mutant: only 404 counts as a failure
StatusOkNot404(resp) == resp.status # 404

\* mutant: the test is inverted
StatusOkInverted(resp) == resp.status # 200

\* line 49: response.status_code == 200
StatusOk(resp) == resp.status = 200

\* mutant: the file is opened for appending
WriteTextAppend(old, new) == old \o new

\* open(path, "w") then write: the new text replaces the old
WriteText(old, new) == new

\* line 48: the fetcher returns a response
TaskFetch ==
    /\ workerPc = "f_fetch"
    /\ \E r \in Responses : response' = r
    /\ workerPc' = "f_status"
    /\ UNCHANGED <<files, printed, caller, saveCalls, data, raw_data, df, exc, lastSaved>>

\* line 48: the fetcher raises (a network error)
TaskFetchRaises ==
    /\ workerPc = "f_fetch"
    /\ exc' = "ConnectionError"
    /\ workerPc' = TaskOnError("ConnectionError")
    /\ UNCHANGED <<files, printed, caller, saveCalls, locals, lastSaved>>

\* line 49: the branch on the status code
TaskStatus ==
    /\ workerPc = "f_status"
    /\ workerPc' = IF StatusOk(response) THEN "f_json" ELSE "f_print_failed"
    /\ UNCHANGED <<files, printed, caller, saveCalls, locals, exc, lastSaved>>

\* line 50: data = response.json()
TaskJson ==
    /\ workerPc = "f_json"
    /\ LET r == JsonLoads(response.body) IN
       IF r.ok
       THEN /\ data' = r.val
            /\ workerPc' = "f_save"
            /\ exc' = exc
       ELSE /\ data' = data
            /\ exc' = "JSONDecodeError"
            /\ workerPc' = TaskOnError("JSONDecodeError")
    /\ UNCHANGED <<files, printed, caller, saveCalls, response, raw_data, df, lastSaved>>

\* mutant: saving the raw document also removes the processed file
TaskSaveInvalidates ==
    /\ workerPc = "f_save"
    /\ saveCalls' = saveCalls + 1
    /\ rawFile' = [exists |-> TRUE, text |-> WriteText(rawFile.text, JsonDump(data))]
    /\ procFile' = AbsentCsv
    /\ lastSaved' = data
    /\ workerPc' = "f_print_ok"
    /\ UNCHANGED <<printed, caller, locals, exc>>

\* line 51, lines 35-38: self.repository.save(data)
TaskSave ==
    /\ workerPc = "f_save"
    /\ saveCalls' = saveCalls + 1
    /\ rawFile' = [exists |-> TRUE, text |-> WriteText(rawFile.text, JsonDump(data))]
    /\ lastSaved' = data
    /\ workerPc' = "f_print_ok"
    /\ UNCHANGED <<procFile, printed, caller, locals, exc>>

\* line 52
TaskPrintOk ==
    /\ workerPc = "f_print_ok"
    /\ printed' = Append(printed, Signal("fetch_ok"))
    /\ workerPc' = "finished"
    /\ UNCHANGED <<files, caller, saveCalls, locals, exc, lastSaved>>

\* line 54
TaskPrintFailed ==
    /\ workerPc = "f_print_failed"
    /\ printed' = Append(printed, SignalOf("fetch_failed", response.status))
    /\ workerPc' = "finished"
    /\ UNCHANGED <<files, caller, saveCalls, locals, exc, lastSaved>>

(***************************************************************************)
(* transform.py: WeatherTransformationService.transform_and_save and       *)
(* WeatherTransformationCommand.execute                                    *)
(***************************************************************************)
\* lines 75-78: the command and the executor are created
CallTransform == Enter("transform", "t_submit")

\* line 79: executor.submit(command.execute)
Submit ==
    /\ mainPc = "t_submit"
    /\ mainPc' = "t_result"
    /\ workerPc' = "t_load"
    /\ started' = started + 1
    /\ UNCHANGED <<files, printed, lastCall, calls, saveCalls, locals, exc, raised,
                   rawAtCall, procAtCall, lastSaved>>

\* future.result() returns once the task has ended
ResultReady == Terminated

\* line 80 and the end of the with block: future.result() re-raises what the
\* task raised; leaving the block waits for the pool to shut down
FutureResult ==
    /\ mainPc = "t_result"
    /\ ResultReady
    /\ mainPc' = "idle"
    /\ raised' = IF workerPc = "crashed" THEN exc ELSE ""
    /\ UNCHANGED <<files, printed, workerPc, lastCall, calls, started, saveCalls,
                   locals, exc, rawAtCall, procAtCall, lastSaved>>

\* mutant: only KeyError is caught
CatchesKeyErrorOnly(e) == e = "KeyError"

\* line 66: except Exception catches every exception the steps raise
Catches(e) == TRUE

\* where an exception raised inside the try block of execute goes
ExecOnError(e) == IF Catches(e) THEN "t_except" ELSE "crashed"

\* lines 12-18: WeatherDataRepository.load
Load(file) ==
    IF ~file.exists THEN [ok |-> FALSE, exc |-> "FileNotFoundError"]
    ELSE LET r == JsonLoads(file.text) IN
         IF r.ok THEN [ok |-> TRUE, val |-> r.val]
         ELSE [ok |-> FALSE, exc |-> "JSONDecodeError"]

\* line 62: raw_data = self.repository.load()
ExecLoad ==
    /\ workerPc = "t_load"
    /\ LET r == Load(rawFile) IN
       IF r.ok
       THEN /\ raw_data' = r.val
            /\ workerPc' = "t_transform"
            /\ exc' = exc
       ELSE /\ raw_data' = raw_data
            /\ exc' = r.exc
            /\ workerPc' = ExecOnError(r.exc)
    /\ UNCHANGED <<files, printed, caller, saveCalls, response, data, df, lastSaved>>

\* line 63, lines 33-51: df = self.transformer.transform(raw_data)
ExecTransform ==
    /\ workerPc = "t_transform"
    /\ LET r == Transform(raw_data) IN
       CASE r.kind = "table" ->
              /\ df' = r
              /\ printed' = Append(printed, Signal("transform_ok"))
              /\ workerPc' = "t_check"
              /\ exc' = exc
         [] r.kind = "none" ->
              /\ df' = None
              /\ printed' = Append(printed, SignalOf("missing_key", r.key))
              /\ workerPc' = "t_check"
              /\ exc' = exc
         [] r.kind = "raise" ->
              /\ df' = df
              /\ printed' = printed
              /\ exc' = r.exc
              /\ workerPc' = ExecOnError(r.exc)
    /\ UNCHANGED <<files, caller, saveCalls, response, data, raw_data, lastSaved>>

\* line 64: if df is not None
ExecCheck ==
    /\ workerPc = "t_check"
    /\ workerPc' = IF df # None THEN "t_save" ELSE "finished"
    /\ UNCHANGED <<files, printed, caller, saveCalls, locals, exc, lastSaved>>

\* line 65, lines 20-24: self.repository.save(df)
ExecSave ==
    /\ workerPc = "t_save"
    /\ saveCalls' = saveCalls + 1
    /\ procFile' = [exists |-> TRUE, lines |-> WriteText(procFile.lines, ToCsv(df.df))]
    /\ printed' = Append(printed, Signal("saved"))
    /\ workerPc' = "finished"
    /\ UNCHANGED <<rawFile, caller, locals, exc, lastSaved>>

\* lines 66-67: the handler reports the exception and execute returns
ExecExcept ==
    /\ workerPc = "t_except"
    /\ printed' = Append(printed, SignalOf("error", exc))
    /\ workerPc' = "finished"
    /\ UNCHANGED <<files, caller, saveCalls, locals, exc, lastSaved>>

(***************************************************************************)
(* Storage failures: a save that raises OSError.  The file is untouched    *)
(* when the failure comes before it is opened, cut short when it comes     *)
(* after: emptied, or ending after its first token or line.                *)
(***************************************************************************)
Prefixes(text) == {SubSeq(text, 1, n) : n \in {0, 1} \cap 0..(Len(text) - 1)}

\* lines 35-38 of extract.py raising
TaskSaveRaises ==
    /\ workerPc = "f_save"
    /\ saveCalls' = saveCalls + 1
    /\ \/ rawFile' = rawFile
       \/ \E cut \in Prefixes(JsonDump(data)) : rawFile' = [exists |-> TRUE, text |-> cut]
    /\ exc' = "OSError"
    /\ workerPc' = TaskOnError("OSError")
    /\ UNCHANGED <<procFile, printed, caller, locals, lastSaved>>

\* lines 20-24 of transform.py raising
ExecSaveRaises ==
    /\ workerPc = "t_save"
    /\ saveCalls' = saveCalls + 1
    /\ \/ procFile' = procFile
       \/ \E cut \in Prefixes(ToCsv(df.df)) : procFile' = [exists |-> TRUE, lines |-> cut]
    /\ exc' = "OSError"
    /\ workerPc' = ExecOnError("OSError")
    /\ UNCHANGED <<rawFile, printed, caller, locals, lastSaved>>

(***************************************************************************)
(* Specifications.                                                         *)
(***************************************************************************)
Next ==
    \/ CallFetch
    \/ ThreadStart
    \/ ThreadJoin
    \/ TaskFetch
    \/ TaskFetchRaises
    \/ TaskStatus
    \/ TaskJson
    \/ TaskSave
    \/ TaskPrintOk
    \/ TaskPrintFailed
    \/ CallTransform
    \/ Submit
    \/ FutureResult
    \/ ExecLoad
    \/ ExecTransform
    \/ ExecCheck
    \/ ExecSave
    \/ ExecExcept

NextFault ==
    \/ Next
    \/ TaskSaveRaises
    \/ ExecSaveRaises

\* the storage capability does what it is asked
Spec == Init /\ [][Next]_vars

\* a save may fail
SpecFault == Init /\ [][NextFault]_vars

\* a caller blocked in join() / result() runs again once the worker has ended
FairSpec == Spec /\ WF_vars(ThreadJoin) /\ WF_vars(FutureResult)

(***************************************************************************)
(* Properties.                                                             *)
(***************************************************************************)
Returned(stage) == lastCall = stage /\ mainPc = "idle"

Printed(signal) == \E i \in 1..Len(printed) : printed[i] = signal

\* the file holds exactly document d
FileHolds(file, d) == file.exists /\ JsonLoads(file.text) = [ok |-> TRUE, val |-> d]

\* the fetcher returned a response with a status other than 200
BadStatus == response # NoResponse /\ response.status # 200

\* C1: when the fetcher returns a status other than 200 the raw file stays as
\* it was when the call began, repository.save is never invoked, exactly one
\* failure signal carrying that status is printed, and no exception is raised.
C1_BadStatusLeavesRawFile ==
    (lastCall = "fetch" /\ BadStatus) =>
        /\ rawFile = rawAtCall
        /\ saveCalls = 0
        /\ exc = ""
        /\ workerPc # "crashed"
        /\ ~Printed(Signal("fetch_ok"))
        /\ mainPc = "idle" =>
              /\ printed = <<SignalOf("fetch_failed", response.status)>>
              /\ workerPc = "finished"
              /\ raised = ""

\* a call that got 404 has returned, over a raw file that already existed
C1_Witness ==
    /\ Returned("fetch")
    /\ response.status = 404
    /\ rawAtCall.exists
    /\ rawFile = rawAtCall
    /\ printed = <<SignalOf("fetch_failed", 404)>>

\* the fetcher returned status 200 with a body that parses
WellFormed200 == response.status = 200 /\ JsonLoads(response.body).ok

C3_ExecuteContainsFailures ==
    lastCall = "transform" =>
        /\ workerPc # "crashed"
        /\ raised = ""
        /\ (exc # "" /\ workerPc = "finished") =>
              printed[Len(printed)] = SignalOf("error", exc)
        /\ mainPc = "idle" => workerPc = "finished"

\* transform_and_save has returned from a run whose save raised
C3_Witness ==
    /\ Returned("transform")
    /\ exc = "OSError"
    /\ saveCalls = 1
    /\ workerPc = "finished"
    /\ raised = ""

\* the fetch worker hit an error that is not a bad status
FetchErrored ==
    \/ exc = "ConnectionError"
    \/ /\ response.status = 200
       /\ ~JsonLoads(response.body).ok
       /\ workerPc \notin {"f_status", "f_json"}

\* C9: when the fetcher raises, or a 200 body is not JSON, nothing catches the
\* error: the worker dies having printed neither signal and saved nothing,
\* the raw file is unchanged, and the call still returns, without raising.
C9_FetchErrorsAreNotContained ==
    (lastCall = "fetch" /\ FetchErrored) =>
        /\ workerPc = "crashed"
        /\ exc \in {"ConnectionError", "JSONDecodeError"}
        /\ printed = <<>>
        /\ saveCalls = 0
        /\ rawFile = rawAtCall
        /\ raised = ""
        /\ mainPc = "f_join" => ENABLED ThreadJoin

\* a call whose 200 body did not parse has returned over an existing raw file
C9_Witness ==
    /\ Returned("fetch")
    /\ response.status = 200
    /\ exc = "JSONDecodeError"
    /\ workerPc = "crashed"
    /\ rawFile.exists

\* execute has loaded a document and the transform step has been taken
TransformDone == lastCall = "transform" /\ raw_data # Unset /\ workerPc # "t_transform"

\* the document lacks hourly, or one of the three keys under it
LacksKey(d) == \E c \in 1..3 : ~HourlyItem(d, HourlyKeys[c]).ok

\* the three values under hourly are lists
HasHourlyArrays(d) ==
    \A c \in 1..3 : HourlyItem(d, HourlyKeys[c]).ok /\ IsList(HourlyItem(d, HourlyKeys[c]).val)

HourlyArray(d, c) == HourlyItem(d, HourlyKeys[c]).val.v

Aligned(d) ==
    /\ HasHourlyArrays(d)
    /\ \A c \in 2..3 : Len(HourlyArray(d, c)) = Len(HourlyArray(d, 1))

Mismatched(d) == HasHourlyArrays(d) /\ ~Aligned(d)

\* C4: when the raw document lacks hourly or one of the three keys under it,
\* transform returns None, and execute completes without raising and without
\* writing or changing the processed file.
C4_MissingKeyYieldsNoTable ==
    (TransformDone /\ LacksKey(raw_data)) =>
        /\ df = None
        /\ procFile = procAtCall
        /\ workerPc # "crashed"
        /\ raised = ""

\* C5: for three hourly arrays of one length n, transform returns a table of
\* the three named columns, in that order, with n rows, row i being
\* (time[i], temperature_2m[i], precipitation[i]).
C5_TransformZipsInSourceOrder ==
    (TransformDone /\ Aligned(raw_data)) =>
        /\ df.kind = "table"
        /\ df.df.columns = <<"Timestamp", "Temperature (°C)", "Precipitation (mm)">>
        /\ NRows(df.df) = Len(HourlyArray(raw_data, 1))
        /\ \A c \in 1..3 : Len(df.df.data[c]) = NRows(df.df)
        /\ \A i \in 1..NRows(df.df) :
              Row(df.df, i) = <<HourlyArray(raw_data, 1)[i], HourlyArray(raw_data, 2)[i],
                                HourlyArray(raw_data, 3)[i]>>

\* transform has returned a table of at least two rows, out of time order
C5_Witness ==
    /\ TransformDone
    /\ Aligned(raw_data)
    /\ df.kind = "table"
    /\ NRows(df.df) >= 2
    /\ Row(df.df, 1)[1] = JStr("2024-01-01T02:00")
    /\ Row(df.df, 2)[1] = JStr("2024-01-01T00:00")

\* execute is past its load step
LoadDone == lastCall = "transform" /\ workerPc \notin {"created", "t_load"}

\* C6: a document saved by the raw repository of the fetch stage and then
\* loaded by the raw repository of the transform stage comes back equal,
\* whatever the file held before the save.
C6_RawSaveLoadRoundTrip ==
    (LoadDone /\ lastSaved # Unset /\ HasHourlyArrays(lastSaved)) =>
        /\ raw_data = lastSaved
        /\ exc \notin {"FileNotFoundError", "JSONDecodeError"}

\* a saved document with non-empty arrays has been loaded back
C6_Witness ==
    /\ LoadDone
    /\ lastSaved # Unset
    /\ Aligned(lastSaved)
    /\ Len(HourlyArray(lastSaved, 1)) >= 2
    /\ raw_data = lastSaved

\* C8 as stated: with hourly arrays of different lengths the transform step
\* yields a (malformed or truncated) table and execute goes on to save it.
C8_MismatchYieldsTable ==
    (Returned("transform") /\ raw_data # Unset /\ Mismatched(raw_data)) =>
        /\ df.kind = "table"
        /\ saveCalls = 1
        /\ procFile = [exists |-> TRUE, lines |-> ToCsv(df.df)]

\* C8 amended: with hourly arrays of different lengths, building the table
\* raises ValueError: transform returns no table, execute reports the error,
\* nothing is saved and the processed file is unchanged.
C8_MismatchRaises ==
    (TransformDone /\ Mismatched(raw_data)) =>
        /\ df = NoDf
        /\ exc = "ValueError"
        /\ saveCalls = 0
        /\ procFile = procAtCall
        /\ workerPc \in {"t_except", "finished"}
        /\ workerPc = "finished" => printed = <<SignalOf("error", "ValueError")>>
        /\ raised = ""

\* a transform run over mismatched arrays has returned, an earlier processed
\* file still in place
C8_Witness ==
    /\ Returned("transform")
    /\ raw_data # Unset
    /\ Mismatched(raw_data)
    /\ exc = "ValueError"
    /\ procFile.exists
    /\ procFile = procAtCall

\* a step that writes a file or prints
Effect ==
    \/ rawFile' # rawFile
    \/ procFile' # procFile
    \/ Len(printed') > Len(printed)
    \/ saveCalls' > saveCalls

Waiting == mainPc \in {"f_join", "t_result"}

\* C7: each call starts exactly one worker and returns only after it has
\* ended: every effect of the worker falls between the start and the return,
\* no worker runs while the caller is outside a call, and the call returns
\* once the worker has ended.
C7_CallBlocksUntilWorkerEnds ==
    /\ [](mainPc = "idle" /\ lastCall # "none" => started = 1 /\ Terminated)
    /\ [](started <= 1 /\ (workerPc \notin {"none", "created"} => started = 1))
    /\ [][Effect => Waiting /\ mainPc' = mainPc /\ ~Terminated]_vars
    /\ (Waiting /\ Terminated) ~> (mainPc = "idle")

\* a fetch call has returned after its one worker saved and printed
C7_Witness ==
    /\ Returned("fetch")
    /\ started = 1
    /\ workerPc = "finished"
    /\ saveCalls = 1
    /\ rawFile # rawAtCall
    /\ printed = <<Signal("fetch_ok")>>

====
